---- MODULE Spec2Model ----
(***************************************************************************)
(* Model of the AUR helper GUI (src/src/main.rs): the shared AppState     *)
(* record behind Arc<Mutex<AppState>>, the egui update pass of MyApp, and  *)
(* the worker tasks it spawns on the tokio runtime (search, install        *)
(* pipeline, uninstall).                                                   *)
(***************************************************************************)
EXTENDS Integers, Sequences, FiniteSets, TLC

\* ---------------------------------------------------------------- bounds
\* Total number of worker tasks spawned in one behaviour.
MaxTasks == 3

\* ------------------------------------------------------------ vocabulary
\* Option<String>
None == <<>>
Some(s) == <<s>>

\* Contents of the package input field: empty (as it starts) or a name.
Names == {"", "foo"}

\* The edits of the field in one frame: it is left as it is or a name is
\* typed into it; a name once typed is not erased.
Typed(old, text) == text = old \/ text # ""

\* Results of search_aur_package: the Name of each entry of "results".
SearchOk == {<<>>, <<"foo">>}

\* Box<dyn Error> messages, by the place that raises them.
ErrSearch == "error sending request"
ErrMetadata == "Package not found"
ErrDownload == "Unexpected content type"
ErrSpawn == "No such file or directory (os error 2)"
ErrNoFile == "Package file not found"

\* Result<(), Box<dyn Error>>
Ok == [ok |-> TRUE, msg |-> ""]
Err(m) == [ok |-> FALSE, msg |-> m]

\* How a subprocess started with Command::output() can end.
CmdOutcomes == {"spawn_err", "exit_fail", "exit_ok"}

VARIABLES
    log,               \* AppState.log
    package_name,      \* AppState.package_name
    is_running,        \* AppState.is_running
    progress,          \* AppState.progress
    error,             \* AppState.error
    search_results,    \* AppState.search_results
    selected_package,  \* AppState.selected_package
    lock,              \* holder of the Mutex<AppState> between steps
    gui,               \* position and locals of MyApp::update
    tasks,             \* the tasks spawned on the runtime, in spawn order
    event              \* what the latest step of the update pass did

app == <<log, package_name, is_running, progress, error, search_results, selected_package>>
vars == <<log, package_name, is_running, progress, error, search_results, selected_package, lock, gui, tasks, event>>

\* ------------------------------------------------------------- AppState
\* AppState::log / Vec::push
Push_Overwrites(l, message) == <<message>>

Push(l, message) == Append(l, message)

\* AppState::clear_log
clear_log(l) == <<>>

\* AppState::add_search_results
add_search_results_Extends(old, results) == old \o results

add_search_results(old, results) == results

\* AppState::select_package
select_package(old, package) == package

\* Prefix order on Vec contents.
IsPrefix(s, t) == Len(s) <= Len(t) /\ SubSeq(t, 1, Len(s)) = s

\* The writes that start an operation, lines 73-75 and 133-135.
StartFields_KeepsError(label) ==
    /\ is_running' = TRUE
    /\ progress' = Some(label)
    /\ UNCHANGED error

StartFields(label) ==
    /\ is_running' = TRUE
    /\ error' = None
    /\ progress' = Some(label)

\* The writes that store an error, lines 90-91, 148-149, 362-363, 373-374
\* and 386-387.
FailFields_StaysRunning(msg) ==
    /\ error' = Some(msg)
    /\ UNCHANGED is_running

FailFields(msg) ==
    /\ error' = Some(msg)
    /\ is_running' = FALSE

\* ---------------------------------------------------------------- tasks
\* A task as spawned by rt.spawn: nothing run yet.
\*   calls         the external calls the task has made, with how each ended
\*   found         the Vec search_aur_package returned
\*   stage_result  download_result / build_result / install_result
\*   result        the Result the install/uninstall block binds at line 140
\*   falses        how many times the task wrote is_running = false
\*   logged        the log lines the task pushed
NewTask(kind, package, button_text, pc) ==
    [kind |-> kind, package |-> package, button_text |-> button_text, pc |-> pc,
     calls |-> <<>>, found |-> <<>>, stage_result |-> Ok, result |-> Ok,
     falses |-> 0, logged |-> <<>>]

\* rt.spawn, lines 79 and 139: the task goes to the runtime.
CanSpawn == Len(tasks) < MaxTasks

Spawn(task) == tasks' = Append(tasks, task)

\* A task that has run to its end: its locals are dropped.
Done(t, line) ==
    [NewTask(t.kind, "", "", "done") EXCEPT !.falses = t.falses + 1,
                                            !.logged = Append(t.logged, line)]

\* The log lines of lines 92, 150 and 154.
SearchFailedLine(e) == "Search failed: " \o e

FailedLine(button_text, e) == button_text \o " failed: " \o e

CompletedLine(button_text) == "Package " \o button_text \o " process completed."

Called(t, stage, out) == Append(t.calls, [stage |-> stage, out |-> out])

\* The spawned tasks that have not performed their last write.
Unfinished == {i \in 1..Len(tasks) : tasks[i].pc # "done"}

\* The update pass between two frames: its locals do not exist.
FrameStart == [pc |-> "frame", results |-> <<>>, selected |-> None, idx |-> 1]

\* Default for AppState; the update pass has not started a frame.
Init ==
    /\ log = <<>>
    /\ package_name = ""
    /\ is_running = FALSE
    /\ progress = None
    /\ error = None
    /\ search_results = <<>>
    /\ selected_package = None
    /\ lock = "free"
    /\ gui = FrameStart
    /\ tasks = <<>>
    /\ event = "none"

\* ------------------------------------------------------ MyApp::update
\* Lines 58-102: lock, text field, Search button, snapshot of the results
\* and of the selection, drop of the guard.
SearchStarts_NoBusyCheck(text, clicked) == clicked /\ text # ""

SearchStarts(text, clicked) == clicked /\ text # "" /\ ~is_running

GuiSearch(text, clicked) ==
    /\ gui.pc = "frame"
    /\ lock = "free"
    /\ Typed(package_name, text)
    /\ package_name' = text
    /\ IF SearchStarts(text, clicked)
       THEN /\ CanSpawn
            /\ StartFields("Searching...")
            /\ Spawn(NewTask("search", text, "", "search_aur_package"))
            /\ event' = "search_started"
       ELSE /\ UNCHANGED <<is_running, error, progress, tasks>>
            /\ event' = IF clicked THEN "search_ignored" ELSE "none"
    /\ gui' = [pc |-> "results", results |-> search_results,
               selected |-> selected_package, idx |-> 1]
    /\ UNCHANGED <<log, search_results, selected_package, lock>>

\* Lines 105-109: one iteration of the loop over the snapshot: lock, radio
\* button, select_package when it was clicked.
GuiRadio(clicked) ==
    /\ gui.pc = "results"
    /\ gui.idx <= Len(gui.results)
    /\ lock = "free"
    /\ IF clicked
       THEN /\ selected_package' = select_package(selected_package, Some(gui.results[gui.idx]))
            /\ gui' = [gui EXCEPT !.pc = "radio_query"]
            /\ lock' = "gui"
            /\ event' = "selected"
       ELSE /\ gui' = [gui EXCEPT !.idx = @ + 1]
            /\ event' = "none"
            /\ UNCHANGED <<selected_package, lock>>
    /\ UNCHANGED <<log, package_name, is_running, progress, error, search_results, tasks>>

\* Lines 110-117: is_package_installed(&result).unwrap_or(false) with the
\* guard held, the progress write, the guard dropped at the end of the
\* iteration.
GuiRadioQuery_KeepsGuard(installed) ==
    /\ gui.pc = "radio_query"
    /\ lock = "gui"
    /\ progress' = IF installed THEN Some("Package is already installed.") ELSE None
    /\ gui' = [gui EXCEPT !.pc = "results", !.idx = @ + 1]
    /\ UNCHANGED <<log, package_name, is_running, error, search_results, selected_package, lock, tasks, event>>

GuiRadioQuery(installed) ==
    /\ gui.pc = "radio_query"
    /\ lock = "gui"
    /\ progress' = IF installed THEN Some("Package is already installed.") ELSE None
    /\ gui' = [gui EXCEPT !.pc = "results", !.idx = @ + 1]
    /\ lock' = "free"
    /\ UNCHANGED <<log, package_name, is_running, error, search_results, selected_package, tasks, event>>

\* Line 125
ButtonText(installed) == IF installed THEN "Uninstall" ELSE "Install"

\* Lines 161-186: labels, then the spinner or the Clear Log button and the
\* log; the guard is dropped when update returns. running is is_running as
\* the section reads it.
Display(running, clear) ==
    /\ clear => ~running
    /\ log' = IF clear THEN clear_log(log) ELSE log
    /\ gui' = FrameStart
    /\ lock' = "free"

\* Lines 120-124 and 161-186: re-lock after the loop. The button is offered
\* only for a selected package while nothing is running; without it the
\* pass goes on to the display section.
GuiRelock(clear) ==
    /\ gui.pc = "results"
    /\ gui.idx > Len(gui.results)
    /\ lock = "free"
    /\ IF selected_package # None /\ ~is_running
       THEN /\ ~clear
            /\ lock' = "gui"
            /\ gui' = [FrameStart EXCEPT !.pc = "button"]
            /\ event' = "none"
            /\ UNCHANGED log
       ELSE /\ Display(is_running, clear)
            /\ event' = IF clear THEN "log_cleared" ELSE "none"
    /\ UNCHANGED <<package_name, is_running, progress, error, search_results, selected_package, tasks>>

\* Lines 125-186: the is-installed query under the guard, the
\* Install/Uninstall button and the spawn, then the display section.
GuiButton_Swapped(installed, clicked, clear) ==
    /\ gui.pc = "button"
    /\ lock = "gui"
    /\ IF clicked
       THEN /\ CanSpawn
            /\ StartFields(ButtonText(installed) \o "...")
            /\ Spawn(NewTask(IF installed THEN "install" ELSE "uninstall",
                             selected_package[1], ButtonText(installed),
                             IF installed THEN "fetch_metadata" ELSE "uninstall_package"))
       ELSE /\ UNCHANGED <<is_running, error, progress, tasks>>
    /\ Display(clicked, clear)
    /\ event' = IF clicked THEN "operation_started"
                ELSE IF clear THEN "log_cleared" ELSE "none"
    /\ UNCHANGED <<package_name, search_results, selected_package>>

GuiButton(installed, clicked, clear) ==
    /\ gui.pc = "button"
    /\ lock = "gui"
    /\ IF clicked
       THEN /\ CanSpawn
            /\ StartFields(ButtonText(installed) \o "...")
            /\ Spawn(NewTask(IF installed THEN "uninstall" ELSE "install",
                             selected_package[1], ButtonText(installed),
                             IF installed THEN "uninstall_package" ELSE "fetch_metadata"))
       ELSE /\ UNCHANGED <<is_running, error, progress, tasks>>
    /\ Display(clicked, clear)
    /\ event' = IF clicked THEN "operation_started"
                ELSE IF clear THEN "log_cleared" ELSE "none"
    /\ UNCHANGED <<package_name, search_results, selected_package>>

Gui ==
    \/ \E text \in Names, clicked \in BOOLEAN : GuiSearch(text, clicked)
    \/ \E clicked \in BOOLEAN : GuiRadio(clicked)
    \/ \E installed \in BOOLEAN : GuiRadioQuery(installed)
    \/ \E clear \in BOOLEAN : GuiRelock(clear)
    \/ \E installed \in BOOLEAN, clicked \in BOOLEAN, clear \in BOOLEAN :
           GuiButton(installed, clicked, clear)

\* ------------------------------------------------- the search task
\* Line 80: search_aur_package(&package_name).await, run without the lock.
SearchCall(i, ok, results) ==
    /\ i \in 1..Len(tasks)
    /\ tasks[i].pc = "search_aur_package"
    /\ tasks' = [tasks EXCEPT ![i] =
           [@ EXCEPT !.pc = "search_write",
                     !.calls = Called(tasks[i], "search", IF ok THEN "ok" ELSE "err"),
                     !.found = IF ok THEN results ELSE <<>>,
                     !.result = IF ok THEN Ok ELSE Err(ErrSearch)]]
    /\ UNCHANGED <<app, lock, gui, event>>

\* Lines 81-93: the two arms of the match, each one lock scope.
SearchWrite(i) ==
    /\ i \in 1..Len(tasks)
    /\ tasks[i].pc = "search_write"
    /\ lock = "free"
    /\ LET t == tasks[i]
           line == IF t.result.ok THEN "Search completed."
                   ELSE SearchFailedLine(t.result.msg)
       IN /\ search_results' = IF t.result.ok
                               THEN add_search_results(search_results, t.found)
                               ELSE search_results
          /\ IF t.result.ok
             THEN is_running' = FALSE /\ progress' = None /\ UNCHANGED error
             ELSE FailFields(t.result.msg) /\ UNCHANGED progress
          /\ log' = Push(log, line)
          /\ tasks' = [tasks EXCEPT ![i] = Done(t, line)]
    /\ UNCHANGED <<package_name, selected_package, lock, gui, event>>

\* ------------------------------------ run_package_management_logic
\* Line 355: fetch_metadata(package_name).await?
FetchMetadata(i, ok) ==
    /\ i \in 1..Len(tasks)
    /\ tasks[i].pc = "fetch_metadata"
    /\ tasks' = [tasks EXCEPT ![i] =
           [@ EXCEPT !.calls = Called(tasks[i], "fetch_metadata", IF ok THEN "ok" ELSE "err"),
                     !.result = IF ok THEN @ ELSE Err(ErrMetadata),
                     !.pc = IF ok THEN "download" ELSE "wrapper"]]
    /\ UNCHANGED <<app, lock, gui, event>>

\* Line 358: download_and_extract_package(..).await
Download(i, ok) ==
    /\ i \in 1..Len(tasks)
    /\ tasks[i].pc = "download"
    /\ tasks' = [tasks EXCEPT ![i] =
           [@ EXCEPT !.calls = Called(tasks[i], "download", IF ok THEN "ok" ELSE "err"),
                     !.stage_result = IF ok THEN Ok ELSE Err(ErrDownload),
                     !.pc = "download_write"]]
    /\ UNCHANGED <<app, lock, gui, event>>

\* The lock scopes at lines 359-367 and 370-378: on Err the error is
\* stored, is_running cleared and the function returns Ok(()); otherwise
\* the progress label is stored and the pipeline goes on.
StageWrite_KeepsGuard(i, at, label, next) ==
    /\ i \in 1..Len(tasks)
    /\ tasks[i].pc = at
    /\ lock = "free"
    /\ LET r == tasks[i].stage_result
       IN IF ~r.ok
          THEN /\ FailFields(r.msg)
               /\ tasks' = [tasks EXCEPT ![i] =
                      [@ EXCEPT !.pc = "wrapper", !.result = Ok, !.stage_result = Ok, !.falses = @ + 1]]
               /\ lock' = "task"
               /\ UNCHANGED progress
          ELSE /\ progress' = Some(label)
               /\ tasks' = [tasks EXCEPT ![i] = [@ EXCEPT !.pc = next]]
               /\ UNCHANGED <<error, is_running, lock>>
    /\ UNCHANGED <<log, package_name, search_results, selected_package, gui, event>>

StageWrite(i, at, label, next) ==
    /\ i \in 1..Len(tasks)
    /\ tasks[i].pc = at
    /\ lock = "free"
    /\ LET r == tasks[i].stage_result
       IN IF ~r.ok
          THEN /\ FailFields(r.msg)
               /\ tasks' = [tasks EXCEPT ![i] =
                      [@ EXCEPT !.pc = "wrapper", !.result = Ok, !.stage_result = Ok, !.falses = @ + 1]]
               /\ UNCHANGED progress
          ELSE /\ progress' = Some(label)
               /\ tasks' = [tasks EXCEPT ![i] = [@ EXCEPT !.pc = next]]
               /\ UNCHANGED <<error, is_running>>
    /\ UNCHANGED <<log, package_name, search_results, selected_package, lock, gui, event>>

DownloadWrite(i) == StageWrite(i, "download_write", "Package downloaded and extracted.", "build_package")

\* Lines 272-287: Err only when makepkg cannot be started (output()?); an
\* unsuccessful exit status is printed and Ok(()) returned.
build_package(out) == IF out = "spawn_err" THEN Err(ErrSpawn) ELSE Ok

\* Line 369
Build(i, out) ==
    /\ i \in 1..Len(tasks)
    /\ tasks[i].pc = "build_package"
    /\ tasks' = [tasks EXCEPT ![i] =
           [@ EXCEPT !.calls = Called(tasks[i], "build", out),
                     !.stage_result = build_package(out),
                     !.pc = "build_write"]]
    /\ UNCHANGED <<app, lock, gui, event>>

BuildWrite(i) == StageWrite(i, "build_write", "Package built successfully.", "find_package_file")

\* Line 381: find_package_file(..).ok_or("Package file not found")?
FindPackageFile(i, exists) ==
    /\ i \in 1..Len(tasks)
    /\ tasks[i].pc = "find_package_file"
    /\ tasks' = [tasks EXCEPT ![i] =
           [@ EXCEPT !.calls = Called(tasks[i], "find", IF exists THEN "ok" ELSE "err"),
                     !.result = IF exists THEN @ ELSE Err(ErrNoFile),
                     !.pc = IF exists THEN "install_package" ELSE "wrapper"]]
    /\ UNCHANGED <<app, lock, gui, event>>

\* Lines 295-306: as build_package, for pkexec pacman -U.
install_package(out) == IF out = "spawn_err" THEN Err(ErrSpawn) ELSE Ok

\* Line 382
Install(i, out) ==
    /\ i \in 1..Len(tasks)
    /\ tasks[i].pc = "install_package"
    /\ tasks' = [tasks EXCEPT ![i] =
           [@ EXCEPT !.calls = Called(tasks[i], "install", out),
                     !.stage_result = install_package(out),
                     !.pc = "install_write"]]
    /\ UNCHANGED <<app, lock, gui, event>>

\* Lines 383-395: the last lock scope of the pipeline, then Ok(()).
InstallWrite(i) ==
    /\ i \in 1..Len(tasks)
    /\ tasks[i].pc = "install_write"
    /\ lock = "free"
    /\ LET r == tasks[i].stage_result
           line == "Package installation process completed."
       IN IF ~r.ok
          THEN /\ FailFields(r.msg)
               /\ tasks' = [tasks EXCEPT ![i] =
                      [@ EXCEPT !.pc = "wrapper", !.result = Ok, !.stage_result = Ok, !.falses = @ + 1]]
               /\ UNCHANGED <<progress, log>>
          ELSE /\ progress' = Some("Package installed successfully.")
               /\ is_running' = FALSE
               /\ log' = Push(log, line)
               /\ tasks' = [tasks EXCEPT ![i] =
                      [@ EXCEPT !.pc = "wrapper", !.result = Ok, !.stage_result = Ok, !.falses = @ + 1,
                                !.logged = Append(@, line)]]
               /\ UNCHANGED error
    /\ UNCHANGED <<package_name, search_results, selected_package, lock, gui, event>>

\* ------------------------------------------------------ uninstall
\* Lines 307-318: as build_package, for pkexec pacman -Rns.
uninstall_package(out) == IF out = "spawn_err" THEN Err(ErrSpawn) ELSE Ok

\* Lines 140-141
Uninstall(i, out) ==
    /\ i \in 1..Len(tasks)
    /\ tasks[i].pc = "uninstall_package"
    /\ tasks' = [tasks EXCEPT ![i] =
           [@ EXCEPT !.calls = Called(tasks[i], "uninstall", out),
                     !.result = uninstall_package(out),
                     !.pc = "wrapper"]]
    /\ UNCHANGED <<app, lock, gui, event>>

\* ------------------------- the block spawned by Install/Uninstall
\* Lines 146-155: the lock scope after the result is bound.
Wrapper(i) ==
    /\ i \in 1..Len(tasks)
    /\ tasks[i].pc = "wrapper"
    /\ lock = "free"
    /\ LET t == tasks[i]
           line == IF t.result.ok THEN CompletedLine(t.button_text)
                   ELSE FailedLine(t.button_text, t.result.msg)
       IN /\ IF t.result.ok
             THEN /\ progress' = Some("Package " \o t.button_text \o " successfully.")
                  /\ is_running' = FALSE
                  /\ UNCHANGED error
             ELSE FailFields(t.result.msg) /\ UNCHANGED progress
          /\ log' = Push(log, line)
          /\ tasks' = [tasks EXCEPT ![i] = Done(t, line)]
    /\ UNCHANGED <<package_name, search_results, selected_package, lock, gui, event>>

\* One step of the i-th spawned task.
TaskStep(i) ==
    \/ \E ok \in BOOLEAN, results \in SearchOk : SearchCall(i, ok, results)
    \/ SearchWrite(i)
    \/ \E ok \in BOOLEAN : FetchMetadata(i, ok)
    \/ \E ok \in BOOLEAN : Download(i, ok)
    \/ DownloadWrite(i)
    \/ \E out \in CmdOutcomes : Build(i, out)
    \/ BuildWrite(i)
    \/ \E exists \in BOOLEAN : FindPackageFile(i, exists)
    \/ \E out \in CmdOutcomes : Install(i, out)
    \/ InstallWrite(i)
    \/ \E out \in CmdOutcomes : Uninstall(i, out)
    \/ Wrapper(i)

Worker == \E i \in 1..MaxTasks : TaskStep(i)

Next == Gui \/ Worker

Spec == Init /\ [][Next]_vars

\* The program after two searches for foo have ended (lines 81-87), the
\* second having found two identifiers, and the frame that started it has
\* returned: the loop at lines 105-117 has more than one iteration from
\* here on.
TwoResults == <<"foo", "foo-git">>

InitAfterSearch ==
    /\ log = <<"Search completed.", "Search completed.">>
    /\ package_name = "foo"
    /\ is_running = FALSE
    /\ progress = None
    /\ error = None
    /\ search_results = add_search_results(<<>>, TwoResults)
    /\ selected_package = None
    /\ lock = "free"
    /\ gui = FrameStart
    /\ tasks = <<Done(NewTask("search", "foo", "", "search_write"), "Search completed."),
                 Done(NewTask("search", "foo", "", "search_write"), "Search completed.")>>
    /\ event = "none"

\* The runtime schedules every spawned task, a task that asks for the mutex
\* gets it at one of the moments it is free, and the is-installed query the
\* update pass makes under its guard returns (lines 111 and 125).
Fairness ==
    /\ \A i \in 1..MaxTasks : SF_vars(TaskStep(i))
    /\ WF_vars(\E installed \in BOOLEAN : GuiRadioQuery(installed))
    /\ WF_vars(\E installed, clicked, clear \in BOOLEAN : GuiButton(installed, clicked, clear))

SpecLive == Spec /\ Fairness

SpecAfterSearch == InitAfterSearch /\ [][Next]_vars

\* ----------------------------------------------------------- run_cli
\* Lines 404-411: the value of --package, absent when the option is not
\* given.
CliArgs == {None, Some(""), Some("foo"), Some("foo-git")}

\* Lines 399-410: run_cli has parsed the command line; no AppState exists
\* yet and Default will be its value.
InitCli ==
    /\ log = <<>>
    /\ package_name = ""
    /\ is_running = FALSE
    /\ progress = None
    /\ error = None
    /\ search_results = <<>>
    /\ selected_package = None
    /\ lock = "free"
    /\ gui = [FrameStart EXCEPT !.pc = "cli"]
    /\ tasks = <<>>
    /\ event = "none"

\* Lines 411-416: with a package the pipeline is awaited inside block_on;
\* without one run_cli returns.
CliStart(arg) ==
    /\ gui.pc = "cli"
    /\ IF arg = None
       THEN /\ gui' = [gui EXCEPT !.pc = "cli_done"]
            /\ event' = "cli_silent"
            /\ UNCHANGED tasks
       ELSE /\ gui' = [gui EXCEPT !.pc = "block_on"]
            /\ tasks' = <<NewTask("install", arg[1], "", "fetch_metadata")>>
            /\ UNCHANGED event
    /\ UNCHANGED <<app, lock>>

\* Lines 416-421: eprintln!("Error: {}", e) when the pipeline returned Err,
\* nothing otherwise; then run_cli returns. AppState is not read.
CliReport(i) ==
    /\ gui.pc = "block_on"
    /\ i \in 1..Len(tasks)
    /\ tasks[i].pc = "wrapper"
    /\ event' = IF tasks[i].result.ok THEN "cli_silent" ELSE "cli_error"
    /\ tasks' = [tasks EXCEPT ![i] = [@ EXCEPT !.pc = "done"]]
    /\ gui' = [gui EXCEPT !.pc = "cli_done"]
    /\ UNCHANGED <<app, lock>>

NextCli ==
    \/ \E arg \in CliArgs : CliStart(arg)
    \/ \E ok \in BOOLEAN : FetchMetadata(1, ok)
    \/ \E ok \in BOOLEAN : Download(1, ok)
    \/ DownloadWrite(1)
    \/ \E out \in CmdOutcomes : Build(1, out)
    \/ BuildWrite(1)
    \/ \E exists \in BOOLEAN : FindPackageFile(1, exists)
    \/ \E out \in CmdOutcomes : Install(1, out)
    \/ InstallWrite(1)
    \/ CliReport(1)

SpecCli == InitCli /\ [][NextCli]_vars

\* ================================================================ claims
\* The external calls of task t that did not succeed.
Failed(c) == c.out \in {"err", "spawn_err", "exit_fail"}

HasFailed(t) == \E k \in 1..Len(t.calls) : Failed(t.calls[k])

\* Task i performs its last write in this step.
Finishes(i) == i \in 1..Len(tasks) /\ tasks[i].pc # "done" /\ tasks'[i].pc = "done"

\* C1: at most one spawned task is unfinished at any time.
C1_AtMostOneInFlight == Cardinality(Unfinished) <= 1

\* C2: while a spawned task has not performed its last write to the shared
\* state, is_running is true.
C2_BusyWhileInFlight == Unfinished # {} => is_running

\* C3: a Search click made while is_running is true spawns no task and
\* leaves is_running, progress, error, log, search_results and
\* selected_package unchanged; the Install/Uninstall button cannot be
\* reached while is_running is true.
C3_BusyStartChangesNothing ==
    /\ [][(is_running /\ \E text \in Names : GuiSearch(text, TRUE))
            => UNCHANGED <<is_running, progress, error, log, search_results,
                           selected_package, tasks>>]_vars
    /\ [](gui.pc = "button" => ~is_running)

\* A Search click with a non-empty name was ignored while an operation runs.
C3_Witness ==
    /\ event = "search_ignored"
    /\ package_name # ""
    /\ is_running
    /\ gui.pc = "results"

\* C4: in every reachable state, is_running = true implies error = None.
C4_RunningImpliesNoError == is_running => error = None

\* An operation has failed and stored its error, and a later operation is
\* running.
C4_Witness ==
    /\ is_running
    /\ \E i \in 1..Len(tasks) :
           /\ tasks[i].pc = "done"
           /\ tasks[i].logged = <<SearchFailedLine(ErrSearch)>>
    /\ Unfinished # {}

\* C5: when a stage of the install pipeline fails, no later stage runs: a
\* call that did not succeed is the last call its task makes.
C5_FailedStageHaltsPipeline ==
    \A i \in 1..Len(tasks) :
        \A k \in 1..Len(tasks[i].calls) :
            Failed(tasks[i].calls[k]) => k = Len(tasks[i].calls)

\* The lines a failed operation may push.
FailureLines ==
    {SearchFailedLine(ErrSearch)} \cup
    {FailedLine(b, m) : b \in {"Install", "Uninstall"},
                        m \in {ErrMetadata, ErrDownload, ErrSpawn, ErrNoFile}}

\* The lines a completed operation pushes.
CompletionLines ==
    {"Search completed.", "Package installation process completed.",
     CompletedLine("Install"), CompletedLine("Uninstall")}

\* C6: when the task of an operation in which a stage failed finishes,
\* is_running is false, error is set, and the one log entry the operation
\* pushed is a failure line.
C6_FailedOperationEndsAsFailure ==
    [][\A i \in 1..Len(tasks) :
          (Finishes(i) /\ HasFailed(tasks[i]))
              => /\ is_running' = FALSE
                 /\ error' # None
                 /\ tasks'[i].logged \in {<<l>> : l \in FailureLines}]_vars

\* C7: an operation is published as successful (error = None and a
\* completion line pushed by its last write) only if every external command
\* it invoked succeeded.
C7_NoErrorSwallowed ==
    [][\A i \in 1..Len(tasks) :
          (/\ Finishes(i)
           /\ error' = None
           /\ tasks'[i].logged[Len(tasks'[i].logged)] \in CompletionLines)
              => ~HasFailed(tasks[i])]_vars

\* C8: every operation sets is_running to false exactly once and pushes
\* exactly one terminal log entry.
C8_PublishedExactlyOnce ==
    \A i \in 1..Len(tasks) :
        /\ tasks[i].falses <= 1
        /\ Len(tasks[i].logged) <= 1
        /\ tasks[i].pc = "done" => (tasks[i].falses = 1 /\ Len(tasks[i].logged) = 1)

\* C9: the step that sets is_running to true sets error to None and spawns
\* the task of the new operation, which has made no call yet.
C9_ErrorClearedOnStart ==
    [][(~is_running /\ is_running')
          => /\ error' = None
             /\ Len(tasks') = Len(tasks) + 1
             /\ tasks'[Len(tasks')].calls = <<>>
             /\ tasks'[Len(tasks')].pc \in
                    {"search_aur_package", "fetch_metadata", "uninstall_package"}]_vars

\* An operation has failed, and the next one has just been started: it has
\* made no call, and the error of the failed one is gone.
C9_Witness ==
    /\ event \in {"search_started", "operation_started"}
    /\ \E i \in 1..Len(tasks) : tasks[i].pc = "done" /\ tasks[i].logged[1] \in FailureLines
    /\ tasks[Len(tasks)].calls = <<>>
    /\ tasks[Len(tasks)].pc \in {"search_aur_package", "fetch_metadata", "uninstall_package"}
    /\ is_running
    /\ error = None

\* The update pass ends a frame in which Clear Log was clicked; no step of
\* a worker task is such a step, as it leaves gui unchanged.
ClearLogClick ==
    /\ gui.pc \in {"results", "button"}
    /\ gui'.pc = "frame"
    /\ event' = "log_cleared"

\* C10: in every step the earlier log is a prefix of the later one, unless
\* the step is a Clear Log click; the steps of the worker tasks only append.
C10_LogAppendOnly ==
    [][IsPrefix(log, log') \/ ClearLogClick]_vars

\* A worker task has pushed a line onto a log that already had one.
C10_Witness ==
    /\ Len(log) >= 2
    /\ \E i \in 1..Len(tasks) :
           /\ tasks[i].pc = "done"
           /\ log[Len(log)] = tasks[i].logged[Len(tasks[i].logged)]

\* The positions at which a thread is inside an external call: the
\* is-installed query of the update pass (lines 111 and 125) and the
\* network, archive and subprocess calls of the tasks.
GuiInCall == gui.pc \in {"radio_query", "button"}

TaskInCall(i) ==
    tasks[i].pc \in {"search_aur_package", "fetch_metadata", "download", "build_package",
                     "find_package_file", "install_package", "uninstall_package"}

\* C11: no thread is inside an external call while it holds the AppState
\* mutex. (A task takes the mutex only for the length of one write, so the
\* holder between steps is the update pass or nobody.)
C11_NoLockAcrossCall ==
    /\ lock = "gui" => ~GuiInCall
    /\ (\E i \in 1..Len(tasks) : TaskInCall(i)) => lock \in {"free", "gui"}

\* The two steps of a selection click: select_package under the guard of
\* the iteration, then the is-installed query and the write that follows.
SelectClick == gui.pc = "results" /\ gui'.pc = "radio_query"

SelectQuery == gui.pc = "radio_query" /\ gui'.pc = "results"

\* C12: a selection click leaves is_running, progress, error, log and
\* search_results unchanged and starts no operation.
C12_SelectionChangesOnlySelection ==
    [][(SelectClick \/ SelectQuery)
          => UNCHANGED <<is_running, progress, error, log, search_results, tasks>>]_vars

\* The labels progress is given when an operation starts (lines 75 and 135).
InFlightLabels == {Some("Searching..."), Some("Install..."), Some("Uninstall...")}

\* C13: no state has is_running false together with the progress label
\* that was set when an operation started.
C13_NoStaleProgress == ~is_running => progress \notin InFlightLabels

\* Task t has called the named stage and the call ended as out.
Returned(t, stage, out) ==
    \E k \in 1..Len(t.calls) : t.calls[k] = [stage |-> stage, out |-> out]

Invoked(t, stage) == \E k \in 1..Len(t.calls) : t.calls[k].stage = stage

\* C17: a pipeline that is about to end with "Package file not found" has
\* run makepkg to a successful exit and has not invoked the install
\* command.
C17_NotFoundOnlyAfterBuildSucceeded ==
    \A i \in 1..Len(tasks) :
        tasks[i].pc = "wrapper" /\ tasks[i].result = Err(ErrNoFile)
            => /\ Returned(tasks[i], "build", "exit_ok")
               /\ ~Invoked(tasks[i], "install")

\* Task i is a search that performs its last write in this step.
SearchEnds(i) == Finishes(i) /\ tasks[i].kind = "search"

\* C15: search_results changes only in the last write of a successful
\* search, which replaces it with the identifiers the search returned; the
\* last write of a failed search leaves it unchanged; no step of an install
\* or uninstall task changes search_results or selected_package.
C15_SearchResultsFromLastSearch ==
    [][/\ search_results' # search_results
          => \E i \in 1..Len(tasks) : SearchEnds(i) /\ tasks[i].result.ok
       /\ \A i \in 1..Len(tasks) :
            /\ SearchEnds(i)
               => search_results' = IF tasks[i].result.ok THEN tasks[i].found
                                    ELSE search_results
            /\ tasks[i].kind \in {"install", "uninstall"} /\ tasks'[i] # tasks[i]
               => UNCHANGED <<search_results, selected_package>>]_vars

\* A search that found nothing has replaced the results of an earlier
\* search in which foo was found and selected.
C15_Witness ==
    /\ search_results = <<>>
    /\ selected_package = Some("foo")
    /\ \E i, j \in 1..Len(tasks) :
          /\ i < j
          /\ tasks[i].pc = "done" /\ tasks[i].logged = <<"Search completed.">>
          /\ tasks[j].pc = "done" /\ tasks[j].logged = <<"Search completed.">>

\* The task spawned in this step.
Spawned == tasks'[Len(tasks')]

\* C18: a click on the Install/Uninstall button happens with a package
\* selected and is_running false; the task it spawns is for the selected
\* package and starts at the uninstall step exactly when the is-installed
\* query of that frame answered yes, and at the head of the install
\* pipeline otherwise; an uninstall task invokes nothing but the removal
\* command and an install task never invokes it.
C18_OperationDecidedByQuery ==
    /\ [][\A installed, clear \in BOOLEAN :
             GuiButton(installed, TRUE, clear)
                => /\ selected_package # None
                   /\ ~is_running
                   /\ Len(tasks') = Len(tasks) + 1
                   /\ Spawned.package = selected_package[1]
                   /\ Spawned.kind = IF installed THEN "uninstall" ELSE "install"
                   /\ Spawned.pc = IF installed THEN "uninstall_package"
                                   ELSE "fetch_metadata"]_vars
    /\ [](\A i \in 1..Len(tasks) :
             /\ tasks[i].kind = "uninstall"
                => /\ tasks[i].pc \in {"uninstall_package", "wrapper", "done"}
                   /\ \A k \in 1..Len(tasks[i].calls) : tasks[i].calls[k].stage = "uninstall"
             /\ tasks[i].kind = "install" => ~Invoked(tasks[i], "uninstall"))

\* An uninstall started from the button has run the removal command and
\* is about to report its end.
C18_Witness ==
    \E i \in 1..Len(tasks) :
        /\ tasks[i].kind = "uninstall"
        /\ tasks[i].pc = "wrapper"
        /\ tasks[i].package = "foo"
        /\ Len(tasks[i].calls) = 1
        /\ progress = Some("Uninstall...")

\* The positions at which the update pass takes the mutex: the start of the
\* frame (line 58), each iteration of the loop (line 106) and the re-lock
\* after the loop (line 120).
GuiAcquires == gui.pc \in {"frame", "results"}

\* C19: the update pass reaches each of its acquisitions with its own guard
\* released, nobody else holds the mutex between two steps, and so a step
\* of the update pass is possible in every state.
C19_NoSelfDeadlock ==
    /\ GuiAcquires => lock = "free"
    /\ ~GuiAcquires => lock = "gui"
    /\ ENABLED Gui

\* The second of two results has been clicked and handled in a frame that
\* began with the first one selected: the loop took the mutex for the first
\* result, released it, and took it again for the second.
C19_Witness ==
    /\ gui.pc = "results"
    /\ Len(gui.results) = 2
    /\ gui.idx = 3
    /\ gui.selected = Some(gui.results[1])
    /\ selected_package = Some(gui.results[2])
    /\ event = "selected"
    /\ lock = "free"

\* A stage of task t wrote its own complaint to standard error: the
\* eprintln of build_package and install_package for a non-zero exit
\* status (lines 281 and 301).
StageComplained(t) == \E k \in 1..Len(t.calls) : t.calls[k].out = "exit_fail"

\* C14: when a CLI run with a package argument has returned and a stage of
\* its pipeline failed, the failure was written to standard error, by
\* run_cli or at least by the stage itself.
C14_CliReportsFailure ==
    gui.pc = "cli_done" /\ Len(tasks) = 1 /\ HasFailed(tasks[1])
        => event = "cli_error" \/ StageComplained(tasks[1])

\* The i-th operation has been started.
Started(i) == Len(tasks) >= i

\* C16: every operation that was started reaches a state in which its task
\* has performed its last write and is_running is false.
C16_EveryOperationEnds ==
    \A i \in 1..MaxTasks :
        Started(i) ~> (Started(i) /\ tasks[i].pc = "done" /\ ~is_running)

\* A search, an install and an uninstall have been started and each has
\* ended.
C16_Witness ==
    /\ ~is_running
    /\ \A i \in 1..Len(tasks) : tasks[i].pc = "done"
    /\ \E i, j, k \in 1..Len(tasks) :
          /\ tasks[i].kind = "search"
          /\ tasks[j].kind = "install"
          /\ tasks[k].kind = "uninstall"
====
